---- MODULE Spec2Model ----
(***************************************************************************)
(* Forecasting pipeline of src/ml/forecast.py: generate_ml_forecast and    *)
(* the functions it calls.  Amounts are fixed-point numbers in thousandths *)
(* (1000 = 1.0); dates are day numbers, day 0 being Sunday 2 January 2022.  *)
(***************************************************************************)
EXTENDS Integers, Sequences, FiniteSets, TLC

(* ------------------------------ bounds -------------------------------- *)
\* longest span of calendar weeks covered by the input records
MaxWeeks == 54
\* largest forecast horizon requested
MaxHorizon == 4
\* the last input week is Sunday 3 December 2023 plus 0..MaxEndShift weeks
MaxEndShift == 1
\* pairs of actual and predicted values in a direct call of calculate_accuracy_metrics
MaxPairs == 2
\* records in a direct call of prepare_weekly_series
MaxRecords == 3
\* length of the series in a direct call of detect_and_handle_anomalies
MaxSeries == 5
\* length of the series in a direct call of rolling_origin_backtest
MaxBacktestSeries == 12
\* weeks of the dataset behind the dashboard of Backend/app2.py
DashWeeks == 13
\* dashboard requests in one run
MaxRequests == 3

(* ------------------------ program constants --------------------------- *)
SEASONAL_THRESHOLD == 52
MIN_ARIMA_THRESHOLD == 16
HIGH_CONFIDENCE_MAPE == 15
MEDIUM_CONFIDENCE_MAPE == 30
ZSCORE_THRESHOLD == 3
MIN_BACKTEST_WINDOWS == 2
BACKTEST_STEP == 1
\* a slip of the minimum: one week fewer is accepted
MinWeeksOff == 4 - 1
\* minimum number of prepared weeks (forecast.py:452)
MinWeeks == 4
\* cap on the number of backtest windows (forecast.py:201)
MaxWindows == 8
\* floor of min_train_size (forecast.py:546)
MinTrainFloor == 8
\* number of weeks kept in the historical array (forecast.py:616)
HistoricalTail == 8
\* December uplift 1.15 as a percentage, and its day window (forecast.py:602-603)
UpliftPct == 115
UpliftFirstDay == 18
UpliftLastDay == 31

(* ---------------------------- arithmetic ------------------------------ *)
\* fixed-point unit: 1000 thousandths = 1.0
Unit == 10 * 10 * 10
\* week index of Sunday 3 December 2023 (day 700 = 7 * 100)
EndWeekBase == 10 * 10

Abs(x) == IF x < 0 THEN -x ELSE x
Max(a, b) == IF a >= b THEN a ELSE b
Min(a, b) == IF a <= b THEN a ELSE b

RECURSIVE SqrtSearch(_, _, _)
SqrtSearch(k, lo, hi) ==
    IF lo >= hi THEN lo
    ELSE LET mid == (lo + hi + 1) \div 2
         IN  IF mid * mid <= k THEN SqrtSearch(k, mid, hi)
                               ELSE SqrtSearch(k, lo, mid - 1)
\* floor of the square root of k >= 0
ISqrt(k) == SqrtSearch(k, 0, Min(k, 46340))

\* Python round(x, 2): nearest hundredth, ties to the even hundredth
Round2(x) ==
    LET q == x \div 10
        r == x % 10
    IN  IF r < 5 THEN q * 10
        ELSE IF r > 5 THEN (q + 1) * 10
        ELSE IF q % 2 = 0 THEN q * 10 ELSE (q + 1) * 10

\* a sequence given by a function over 1..n, as a list
AsList(f) == f \o << >>

RECURSIVE SumFrom(_, _)
SumFrom(s, k) == IF k > Len(s) THEN 0 ELSE s[k] + SumFrom(s, k + 1)
SumSeq(s) == SumFrom(s, 1)

\* the values of a sequence of rows
Values(rows) == AsList([i \in 1..Len(rows) |-> rows[i].value])

(* ------------------------------ calendar ------------------------------ *)
IsLeap(y) == (y % 4 = 0 /\ y % 100 # 0) \/ y % 400 = 0
YearLen(y) == IF IsLeap(y) THEN 366 ELSE 365
MonthLen(y, m) ==
    IF m = 2 THEN (IF IsLeap(y) THEN 29 ELSE 28)
    ELSE IF m \in {4, 6, 9, 11} THEN 30 ELSE 31

RECURSIVE YearOfFrom(_, _)
YearOfFrom(y, d) == IF d < YearLen(y) THEN y ELSE YearOfFrom(y + 1, d - YearLen(y))
RECURSIVE DayInYearFrom(_, _)
DayInYearFrom(y, d) == IF d < YearLen(y) THEN d ELSE DayInYearFrom(y + 1, d - YearLen(y))
RECURSIVE MonthFrom(_, _, _)
MonthFrom(y, m, d) == IF d < MonthLen(y, m) THEN m ELSE MonthFrom(y, m + 1, d - MonthLen(y, m))
RECURSIVE DayFrom(_, _, _)
DayFrom(y, m, d) == IF d < MonthLen(y, m) THEN d + 1 ELSE DayFrom(y, m + 1, d - MonthLen(y, m))

\* day 0 is 2 January 2022, so day d is day d + 1 (0-based) of 2022
DateYear(d) == YearOfFrom(2022, d + 1)
DateMonth(d) == MonthFrom(DateYear(d), 1, DayInYearFrom(2022, d + 1))
DateDay(d) == DayFrom(DateYear(d), 1, DayInYearFrom(2022, d + 1))
\* strftime('%d %b'): day of month and month, the year is dropped
Label(d) == <<DateDay(d), DateMonth(d)>>
\* label of the weekly bin of resample('W'): the Sunday on or after the date
WeekEnd(d) == d + ((7 - (d % 7)) % 7)

(* ------------------------------- input -------------------------------- *)
\* The record sets the pipeline is run on.  Week i (0-based) of a span of n
\* weeks ends on Sunday SundayOf(endWeek - n + 1 + i); a record is dated on
\* the Wednesday or on the Sunday of its week.
Shapes == {"flat", "rising", "zigzag", "gappy", "returns", "zeros", "spike", "surge"}
SundayOf(w) == 7 * w
Rec(d, a) == [InvoiceDate |-> d, TotalAmount |-> a]

WeekRecords(shape, n, i, sunday) ==
    LET wed == sunday - 4
    IN  CASE shape = "flat"    -> << Rec(wed, 5 * Unit) >>
          [] shape = "rising"  -> << Rec(wed, Unit + 100 * i) >>
          [] shape = "zigzag"  -> << Rec(wed, IF i % 2 = 0 THEN 2 * Unit ELSE 3 * Unit) >>
          [] shape = "gappy"   -> IF i % 3 = 1 /\ i # n - 1 THEN << >>
                                  ELSE << Rec(wed, 3 * Unit + 500 * (i % 2)) >>
          [] shape = "returns" -> IF i % 2 = 1
                                  THEN << Rec(wed, 2 * Unit), Rec(sunday, -3 * Unit) >>
                                  ELSE << Rec(sunday, 2 * Unit + 250 * (i % 4)) >>
          [] shape = "zeros"   -> << Rec(wed, 2 * Unit), Rec(sunday, -2 * Unit) >>
          [] shape = "spike"   -> << Rec(wed, IF i = 2 THEN 12 * Unit ELSE Unit) >>
          [] shape = "surge"   -> << Rec(wed, IF i = n - 2 THEN 12 * Unit ELSE Unit) >>

RECURSIVE RecordsFrom(_, _, _, _)
RecordsFrom(shape, n, endWeek, i) ==
    IF i >= n THEN << >>
    ELSE WeekRecords(shape, n, i, SundayOf(endWeek - n + 1 + i))
         \o RecordsFrom(shape, n, endWeek, i + 1)
Records(shape, n, endWeek) == RecordsFrom(shape, n, endWeek, 0)

(* ----------------------- prepare_weekly_series ------------------------ *)
RECURSIVE SumWeek(_, _, _)
SumWeek(recs, date, k) ==
    IF k > Len(recs) THEN 0
    ELSE (IF WeekEnd(recs[k].InvoiceDate) = date THEN recs[k].TotalAmount ELSE 0)
         + SumWeek(recs, date, k + 1)

SetMin(S) == CHOOSE x \in S : \A y \in S : x <= y
SetMax(S) == CHOOSE x \in S : \A y \in S : x >= y
WeekEnds(recs) == {WeekEnd(recs[k].InvoiceDate) : k \in 1..Len(recs)}

\* a slip of the fill: only the weeks that have a record get a row
WeeklyRowsNoFill(recs, first, last) ==
    SelectSeq(AsList([i \in 1..((last - first) \div 7 + 1) |->
                         [date  |-> first + 7 * (i - 1),
                          value |-> SumWeek(recs, first + 7 * (i - 1), 1)]]),
              LAMBDA row : row.date \in WeekEnds(recs))

\* one row per week from the week `first` to the week `last`
WeeklyRows(recs, first, last) ==
    AsList([i \in 1..((last - first) \div 7 + 1) |->
               [date  |-> first + 7 * (i - 1),
                value |-> SumWeek(recs, first + 7 * (i - 1), 1)]])

\* resample('W').sum() and the reindex over date_range(min, max, freq='W'):
\* one row per week from the first to the last week with a record, 0 for a
\* week without records; the default RETURNS_HANDLING keeps the sign.
prepare_weekly_series(recs) ==
    IF recs = << >> THEN << >>
    ELSE WeeklyRows(recs, SetMin(WeekEnds(recs)), SetMax(WeekEnds(recs)))

(* -------------------- detect_and_handle_anomalies --------------------- *)
Mean(vals) == SumSeq(vals) \div Len(vals)
\* deviations from the mean m, in hundredths
DevC(vals, m) == AsList([i \in 1..Len(vals) |-> (vals[i] - m) \div 10])
SumSq(devs) == SumSeq(AsList([i \in 1..Len(devs) |-> devs[i] * devs[i]]))
\* standard deviation in thousandths from the sum of squared deviations
\* (hundredths squared) and the divisor: n - 1 for pandas Series.std(),
\* n for numpy std()
StdOf(ssd, divisor) == ISqrt((ssd * 100) \div divisor)
PopStd(vals) == StdOf(SumSq(DevC(vals, Mean(vals))), Len(vals))

\* np.abs((v - mean) / std) > ZSCORE_THRESHOLD for a deviation dev, with
\* std^2 = ssd / (n - 1); with std = 0 the quotient is NaN and the test False
ZAnomaly(dev, ssd, n) ==
    dev * dev * (n - 1) > ZSCORE_THRESHOLD * ZSCORE_THRESHOLD * ssd

\* forecast.py:73-74: the positions flagged
AnomalyMask(devs, ssd) == {i \in 1..Len(devs) : ZAnomaly(devs[i], ssd, Len(devs))}
\* forecast.py:77-78: flagged values are replaced by min(value, cap)
CapAnomalies(vals, mask, cap) ==
    AsList([i \in 1..Len(vals) |-> IF i \in mask THEN Min(vals[i], cap) ELSE vals[i]])

ZScoreClean(vals, m, devs, ssd) ==
    [cleaned   |-> CapAnomalies(vals, AnomalyMask(devs, ssd),
                                m + 2 * StdOf(ssd, Len(vals) - 1)),
     anomalies |-> AnomalyMask(devs, ssd)]
ZScoreFrom(vals, m, devs) == ZScoreClean(vals, m, devs, SumSq(devs))
ZScore(vals, m) == ZScoreFrom(vals, m, DevC(vals, m))

\* Series.quantile(q) with q = num / 4: linear interpolation between the two
\* order statistics around position (n - 1) * q of the sorted values
Ascending(a, b) == a < b
Interpolate(sorted, pos4) ==
    IF pos4 % 4 = 0 THEN sorted[pos4 \div 4 + 1]
    ELSE sorted[pos4 \div 4 + 1]
         + ((sorted[pos4 \div 4 + 2] - sorted[pos4 \div 4 + 1]) * (pos4 % 4)) \div 4
Quantile(sorted, num) == Interpolate(sorted, (Len(sorted) - 1) * num)

\* a slip of the capping: the flagged points are dropped
ClipSeqDrop(vals, lower_bound, upper_bound) ==
    SelectSeq(vals, LAMBDA v : v >= lower_bound /\ v <= upper_bound)

\* a slip of the clip: only the upper bound is applied
ClipSeqUpperOnly(vals, lower_bound, upper_bound) ==
    AsList([i \in 1..Len(vals) |-> Min(vals[i], upper_bound)])

\* forecast.py:91: series.clip(lower, upper)
ClipSeq(vals, lower_bound, upper_bound) ==
    AsList([i \in 1..Len(vals) |-> Max(lower_bound, Min(vals[i], upper_bound))])

\* forecast.py:84-91 from the two bounds
IqrClean(vals, lower_bound, upper_bound) ==
    [cleaned   |-> ClipSeq(vals, lower_bound, upper_bound),
     anomalies |-> {i \in 1..Len(vals) : vals[i] < lower_bound \/ vals[i] > upper_bound}]
\* forecast.py:81-85 from Q1 and Q3
IqrFrom(vals, q1, q3) ==
    IqrClean(vals, q1 - (3 * (q3 - q1)) \div 2, q3 + (3 * (q3 - q1)) \div 2)
Iqr(vals, sorted) == IqrFrom(vals, Quantile(sorted, 1), Quantile(sorted, 3))

\* [cleaned |-> values, anomalies |-> flagged positions]; a method other than
\* "zscore" and "iqr" leaves the copy of the series as it is
CleanedAndFlagged(vals, method) ==
    IF Len(vals) < 4 THEN [cleaned |-> vals, anomalies |-> {}]
    ELSE IF method = "zscore" THEN ZScore(vals, Mean(vals))
    ELSE IF method = "iqr" THEN Iqr(vals, SortSeq(vals, Ascending))
    ELSE [cleaned |-> vals, anomalies |-> {}]

\* a slip of the copy: cleaned is the argument itself, so the capped values
\* are written into the caller's series
WithArgumentAliased(out, vals) ==
    [cleaned |-> out.cleaned, anomalies |-> out.anomalies, series |-> out.cleaned]

\* forecast.py:66, 69, 78, 91: the values are written to series.copy() or to
\* the new series of clip(); series is the caller's object after the call
WithArgument(out, vals) ==
    [cleaned |-> out.cleaned, anomalies |-> out.anomalies, series |-> vals]

detect_and_handle_anomalies(vals, method) ==
    WithArgument(CleanedAndFlagged(vals, method), vals)

(* -------------------------- fit_baseline_model ------------------------ *)
\* sum of (2i - (n - 1)) * y_i over the 0-based positions i >= k - 1
RECURSIVE CrossSum(_, _)
CrossSum(vals, k) ==
    IF k > Len(vals) THEN 0
    ELSE (2 * (k - 1) - (Len(vals) - 1)) * vals[k] + CrossSum(vals, k + 1)

\* mean(y) + slope * (x - mean(x)) at x = n .. n + h - 1, from the mean m,
\* b = sum of (2i - (n - 1)) y_i and d = n (n^2 - 1) / 3, for which
\* slope * (x - mean(x)) = b (2x - n + 1) / d; a single sample gives slope 0
TrendLine(n, m, b, d, h) ==
    AsList([j \in 1..h |->
               IF d = 0 THEN m ELSE m + (b * (2 * (n + j - 1) - n + 1)) \div d])

\* LinearRegression().fit(arange(n), y).predict(arange(n, n + h))
LinearPredict(vals, h) ==
    TrendLine(Len(vals), Mean(vals), CrossSum(vals, 1),
              (Len(vals) * (Len(vals) * Len(vals) - 1)) \div 3, h)

\* a slip of the clamp: the values are passed through
ClampSeqNone(s) == s

\* np.maximum(x, 0) on a list
ClampSeq(s) == AsList([i \in 1..Len(s) |-> Max(s[i], 0)])

\* forecast.py:403-414: the bands p -/+ 1.5 std, everything clamped at 0
BaselineBands(p, sd) ==
    [predictions |-> ClampSeq(p),
     lower       |-> ClampSeq(AsList([i \in 1..Len(p) |-> p[i] - sd])),
     upper       |-> ClampSeq(AsList([i \in 1..Len(p) |-> p[i] + sd]))]

\* fit_baseline_model: LinearRegression.fit raises ValueError on 0 samples
BaselineRaises(vals) == Len(vals) = 0
fit_baseline_model(vals, h) ==
    BaselineBands(LinearPredict(vals, h), (3 * PopStd(vals)) \div 2)

(* ------------------- fit_prophet_model / fit_arima_model -------------- *)
\* Prophet and pmdarima are libraries outside the repository: a call either
\* raises or returns a point forecast with an interval around it, of any
\* sign.  Each raw output is [yhat, lo, hi] for every step of the horizon.
FitterLevel(f) == CASE f = "prophet" -> 4 * Unit
                    [] f = "sarimax" -> 3 * Unit
                    [] f = "arima"   -> 2 * Unit
RawOutputs(f, h) ==
    { [yhat |-> AsList([i \in 1..h |-> FitterLevel(f) + 125 * i]),
       lo   |-> AsList([i \in 1..h |-> FitterLevel(f) + 125 * i - Unit]),
       hi   |-> AsList([i \in 1..h |-> FitterLevel(f) + 125 * i + Unit])],
      [yhat |-> AsList([i \in 1..h |-> 333 - (FitterLevel(f) \div 8) * i]),
       lo   |-> AsList([i \in 1..h |-> 333 - (FitterLevel(f) \div 8) * i - 2 * Unit]),
       hi   |-> AsList([i \in 1..h |-> 333 - (FitterLevel(f) \div 8) * i + 2 * Unit])] }

\* forecast.py:279-286: Prophet(uncertainty_samples=100) simulates its
\* interval from numpy's global random state, which the code never seeds:
\* yhat is a function of the data, yhat_lower and yhat_upper also of the draw
Draws == {0, 1}
Resampled(raw, draw) ==
    [yhat |-> raw.yhat,
     lo   |-> AsList([i \in 1..Len(raw.lo) |-> raw.lo[i] - 60 * draw]),
     hi   |-> AsList([i \in 1..Len(raw.hi) |-> raw.hi[i] + 40 * draw])]
\* what a call of a library fitter can hand back before the clamp
FitterOutputs(f, h) ==
    IF f = "prophet" THEN {Resampled(raw, d) : raw \in RawOutputs(f, h), d \in Draws}
    ELSE RawOutputs(f, h)

\* forecast.py:300-311 and 351-368: the last h values, np.maximum(., 0), tolist()
FitterReturn(raw) ==
    [predictions |-> ClampSeq(raw.yhat),
     lower       |-> ClampSeq(raw.lo),
     upper       |-> ClampSeq(raw.hi)]

(* ---------------------- calculate_accuracy_metrics -------------------- *)
\* Optional values: None is << >>, a number v is << v >>
None == << >>
Some(v) == << v >>

\* |a - p| / a_safe * 100 in thousandths of a percent, a_safe = 1e-10 for
\* a = 0 (the quotient is then beyond every threshold unless p = 0 too)
ApeTerm(a, p) ==
    IF a = 0 THEN (IF p = 0 THEN 0 ELSE 100 * 100 * Unit)
    ELSE (Abs(a - p) * 100 * Unit) \div Abs(a)

\* a slip of the thresholds: <= where the code has <
ConfidenceOfInclusive(mape) ==
    IF mape <= HIGH_CONFIDENCE_MAPE * Unit THEN "HIGH"
    ELSE IF mape <= MEDIUM_CONFIDENCE_MAPE * Unit THEN "MEDIUM"
    ELSE "LOW"

ConfidenceOf(mape) ==
    IF mape < HIGH_CONFIDENCE_MAPE * Unit THEN "HIGH"
    ELSE IF mape < MEDIUM_CONFIDENCE_MAPE * Unit THEN "MEDIUM"
    ELSE "LOW"

\* forecast.py:164-180
MetricsOf(mape, rmse, r2) ==
    [mape       |-> Some(Round2(mape)),
     rmse       |-> Some(Round2(rmse)),
     r2         |-> Some(r2),
     accuracy   |-> Round2(Max(0, 100 * Unit - mape)),
     confidence |-> ConfidenceOf(mape)]

R2Of(ss_res, ss_tot) ==
    IF ss_tot > 0 THEN Unit - (ss_res * Unit) \div ss_tot ELSE 0

Actuals(pairs) == AsList([i \in 1..Len(pairs) |-> pairs[i][1]])
ErrorsC(pairs) == AsList([i \in 1..Len(pairs) |-> Abs(pairs[i][1] - pairs[i][2]) \div 10])
MapeOf(pairs) ==
    SumSeq(AsList([i \in 1..Len(pairs) |-> ApeTerm(pairs[i][1], pairs[i][2])]))
        \div Len(pairs)
MetricsFrom(pairs, ss_res, trues) ==
    MetricsOf(MapeOf(pairs), StdOf(ss_res, Len(pairs)),
              R2Of(ss_res, SumSq(DevC(trues, Mean(trues)))))

\* pairs: sequence of << actual, predicted >>
calculate_accuracy_metrics(pairs) ==
    MetricsFrom(pairs, SumSq(ErrorsC(pairs)), Actuals(pairs))

(* ----------------------- rolling_origin_backtest ---------------------- *)
NumWindows(n, min_train_size) ==
    Min((n - min_train_size) \div BACKTEST_STEP, MaxWindows)

\* forecast.py:233-234: the pairs of one window
WindowPairs(test, p) == AsList([j \in 1..Len(test) |-> << test[j], p[j] >>])

\* a slip of the split: the test range starts on the last training point
TestOfOverlap(vals, split_idx, h) ==
    SubSeq(vals, split_idx, Min(split_idx + h - 1, Len(vals)))

\* forecast.py:215-216: series.iloc[:split_idx], series.iloc[split_idx:split_idx + h]
TrainOf(vals, split_idx) == SubSeq(vals, 1, Min(split_idx, Len(vals)))
TestOf(vals, split_idx, h) == SubSeq(vals, split_idx + 1, Min(split_idx + h, Len(vals)))

\* the loop of forecast.py:212-234 from window i on: the pooled pairs
RECURSIVE BacktestPairs(_, _, _, _, _)
BacktestPairs(vals, h, min_train_size, num_windows, i) ==
    IF i >= num_windows THEN << >>
    ELSE IF Len(TestOf(vals, min_train_size + i * BACKTEST_STEP, h)) < h THEN << >>
    ELSE WindowPairs(TestOf(vals, min_train_size + i * BACKTEST_STEP, h),
                     LinearPredict(TrainOf(vals, min_train_size + i * BACKTEST_STEP), h))
         \o BacktestPairs(vals, h, min_train_size, num_windows, i + 1)

MetricsOrNone(pairs) ==
    IF Len(pairs) = 0 THEN None ELSE Some(calculate_accuracy_metrics(pairs))

\* all_actuals / all_predictions of forecast.py:207-234 when the function
\* returns: empty after an early return
PooledPairs(vals, h, min_train_size) ==
    IF Len(vals) < min_train_size + h THEN << >>
    ELSE IF NumWindows(Len(vals), min_train_size) < MIN_BACKTEST_WINDOWS THEN << >>
    ELSE BacktestPairs(vals, h, min_train_size, NumWindows(Len(vals), min_train_size), 0)

\* a slip of the backtest: the count of windows is not checked
rolling_origin_backtest_any_windows(vals, h, min_train_size) ==
    IF Len(vals) < min_train_size + h THEN None
    ELSE MetricsOrNone(BacktestPairs(vals, h, min_train_size,
                                     NumWindows(Len(vals), min_train_size), 0))

\* None, or Some(metrics)
rolling_origin_backtest(vals, h, min_train_size) ==
    IF Len(vals) < min_train_size + h THEN None
    ELSE IF NumWindows(Len(vals), min_train_size) < MIN_BACKTEST_WINDOWS THEN None
    ELSE MetricsOrNone(BacktestPairs(vals, h, min_train_size,
                                     NumWindows(Len(vals), min_train_size), 0))

(* --------------------------- generate_ml_forecast --------------------- *)
VARIABLES
    df,                  \* the caller's records
    horizon,             \* the caller's horizon
    pc,                  \* position in generate_ml_forecast
    weekly_df,           \* rows [date, value, value_cleaned]
    weekly_nonzero,      \* rows [date, value] kept for modelling
    weekly_points,
    model_used,
    fitted,              \* None or Some([predictions, lower, upper])
    confidence_override, \* "None" or "LOW"
    model_selection_log,
    calls,               \* history: the fitter calls made, [fitter, outcome, output]
    backtest_ran,        \* history: rolling_origin_backtest was called
    accuracy_metrics,
    result,              \* the returned dictionary, once pc = "done"
    backtest_metrics,    \* [outcome, value] of the call of rolling_origin_backtest
    probe,               \* a direct call of one function: its input and output
    ML_MODEL_CACHE,      \* Backend/app2.py: the global forecast cache
    responses            \* Backend/app2.py: history of the dashboard responses

vars == << df, horizon, pc, weekly_df, weekly_nonzero, weekly_points, model_used,
           fitted, confidence_override, model_selection_log, calls, backtest_ran,
           accuracy_metrics, result, backtest_metrics, probe, ML_MODEL_CACHE, responses >>

NoMetrics == [mape |-> None, rmse |-> None, r2 |-> None, accuracy |-> 0,
              confidence |-> "LOW"]
NoResult == [returned |-> FALSE]
NotCalled == [outcome |-> "not called", value |-> None]
NoProbe == [fn |-> "none", input |-> << >>, applied |-> FALSE, output |-> << >>,
            again |-> << >>]
\* Backend/app2.py:93-97
EmptyCache == [forecast_data |-> None, model |-> None, metrics |-> None]

Init ==
    /\ \E shape \in Shapes, n \in 0..MaxWeeks, e \in 0..MaxEndShift :
          df = Records(shape, n, EndWeekBase + 3 * e)
    /\ horizon \in 1..MaxHorizon
    /\ pc = "prepare"
    /\ weekly_df = << >>
    /\ weekly_nonzero = << >>
    /\ weekly_points = 0
    /\ model_used = "None"
    /\ fitted = None
    /\ confidence_override = "None"
    /\ model_selection_log = << >>
    /\ calls = << >>
    /\ backtest_ran = FALSE
    /\ accuracy_metrics = NoMetrics
    /\ result = NoResult
    /\ backtest_metrics = NotCalled
    /\ probe = NoProbe
    /\ ML_MODEL_CACHE = EmptyCache
    /\ responses = << >>

\* forecast.py:447 and 644: the try block encloses every statement of the
\* function that raises, so each exception enters the handler; "raised"
\* stands for an exception that leaves generate_ml_forecast
Handler(site) == "except"

\* the frame of weekly_df before the anomaly step: value_cleaned not yet set
RawFrame(weekly) ==
    AsList([i \in 1..Len(weekly) |->
               [date |-> weekly[i].date, value |-> weekly[i].value,
                value_cleaned |-> weekly[i].value]])

\* forecast.py:448-459: prepare the weekly series; fewer than 4 weeks raises
Prepare ==
    /\ pc = "prepare"
    /\ weekly_df' = RawFrame(prepare_weekly_series(df))
    /\ pc' = IF Len(weekly_df') < MinWeeks THEN Handler("prepare") ELSE "anomalies"
    /\ UNCHANGED << df, horizon, weekly_nonzero, weekly_points, model_used, fitted,
                    confidence_override, model_selection_log, calls, backtest_ran,
                    accuracy_metrics, result, backtest_metrics, probe, ML_MODEL_CACHE, responses >>

\* the rows with value > 0 of a sequence of [date, value] rows, in order
IsPositive(row) == row.value > 0
Positive(rows) == SelectSeq(rows, IsPositive)

\* forecast.py:464: weekly_df['value_cleaned'] = cleaned_series
WithCleaned(rows, cleaned) ==
    AsList([i \in 1..Len(rows) |-> [rows[i] EXCEPT !.value_cleaned = cleaned[i]]])
\* forecast.py:472-473: the columns date and value_cleaned, renamed date and value
ModelingFrame(rows) ==
    AsList([i \in 1..Len(rows) |-> [date |-> rows[i].date, value |-> rows[i].value_cleaned]])

\* forecast.py:461-479: cap the anomalies, keep the weeks with a cleaned value > 0
DetectAnomalies ==
    /\ pc = "anomalies"
    /\ weekly_df' = WithCleaned(weekly_df,
                                detect_and_handle_anomalies(Values(weekly_df),
                                                            "zscore").cleaned)
    /\ weekly_nonzero' = Positive(ModelingFrame(weekly_df'))
    /\ weekly_points' = Len(weekly_nonzero')
    /\ pc' = "select"
    /\ UNCHANGED << df, horizon, model_used, fitted, confidence_override,
                    model_selection_log, calls, backtest_ran, accuracy_metrics, result,
                    backtest_metrics, probe, ML_MODEL_CACHE, responses >>

\* a slip of the gate: > where the code has >=
EntryPointStrict(points) ==
    IF points > SEASONAL_THRESHOLD THEN "try_prophet"
    ELSE IF points > MIN_ARIMA_THRESHOLD THEN "try_arima_medium"
    ELSE "baseline_sparse"

\* forecast.py:490-493, 517-520, 532-535: the entry point of the selection
EntryPoint(points) ==
    IF points >= SEASONAL_THRESHOLD THEN "try_prophet"
    ELSE IF points >= MIN_ARIMA_THRESHOLD THEN "try_arima_medium"
    ELSE "baseline_sparse"

EntryLog(points) ==
    IF points >= SEASONAL_THRESHOLD THEN "Attempted: Seasonal models (Prophet/SARIMAX)"
    ELSE IF points >= MIN_ARIMA_THRESHOLD THEN "Attempted: ARIMA"
    ELSE "Used: Linear Baseline (sparse data)"

SelectModel ==
    /\ pc = "select"
    /\ pc' = EntryPoint(weekly_points)
    /\ model_selection_log' = Append(model_selection_log, EntryLog(weekly_points))
    /\ UNCHANGED << df, horizon, weekly_df, weekly_nonzero, weekly_points, model_used,
                    fitted, confidence_override, calls, backtest_ran,
                    accuracy_metrics, result, backtest_metrics, probe, ML_MODEL_CACHE, responses >>

\* a slip of the fallback chain: a failed Prophet hands over to plain ARIMA
NextOnFailureSkip(here) ==
    CASE here = "try_prophet"      -> "try_arima"
      [] here = "try_sarimax"      -> "try_arima"
      [] here = "try_arima"        -> "baseline_fallback"
      [] here = "try_arima_medium" -> "baseline_fallback"

\* the except clauses of forecast.py:498-512 and 525-527: where a failed
\* fitter hands over
NextOnFailure(here) ==
    CASE here = "try_prophet"      -> "try_sarimax"
      [] here = "try_sarimax"      -> "try_arima"
      [] here = "try_arima"        -> "baseline_fallback"
      [] here = "try_arima_medium" -> "baseline_fallback"

FitterAt(here) ==
    CASE here = "try_prophet"      -> "prophet"
      [] here = "try_sarimax"      -> "sarimax"
      [] here = "try_arima"        -> "arima"
      [] here = "try_arima_medium" -> "arima"

ModelName(here) ==
    CASE here = "try_prophet"       -> "Prophet (Seasonal)"
      [] here = "try_sarimax"       -> "SARIMAX (Seasonal)"
      [] here = "try_arima"         -> "ARIMA (Non-seasonal)"
      [] here = "try_arima_medium"  -> "ARIMA"
      [] here = "baseline_fallback" -> "Linear Baseline (Fallback)"
      [] here = "baseline_sparse"   -> "Linear Baseline"

FailureLog(here) ==
    CASE here = "try_prophet" -> "Prophet failed"
      [] here = "try_sarimax" -> "SARIMAX failed"
      [] OTHER                -> "ARIMA failed"

\* a slip of the chain: a Prophet that returned is followed by SARIMAX anyway
NextOnSuccessContinue(here) ==
    IF here = "try_prophet" THEN "try_sarimax" ELSE "backtest"

\* forecast.py:496-497 and the like: a fitter that returns ends the selection
NextOnSuccess(here) == "backtest"

Call(fitter, outcome, output) == [fitter |-> fitter, outcome |-> outcome, output |-> output]

\* one try/except around a library fitter: on success the selection is over,
\* on an exception the next stage is entered
TryFitter(here) ==
    /\ pc = here
    /\ \/ \E raw \in FitterOutputs(FitterAt(here), horizon) :
             /\ fitted' = Some(FitterReturn(raw))
             /\ model_used' = ModelName(here)
             /\ calls' = Append(calls, Call(FitterAt(here), "returned",
                                            Some(FitterReturn(raw))))
             /\ pc' = NextOnSuccess(here)
             /\ UNCHANGED model_selection_log
       \/ /\ calls' = Append(calls, Call(FitterAt(here), "raised", None))
          /\ model_selection_log' = Append(model_selection_log, FailureLog(here))
          /\ pc' = NextOnFailure(here)
          /\ UNCHANGED << fitted, model_used >>
    /\ UNCHANGED << df, horizon, weekly_df, weekly_nonzero, weekly_points,
                    confidence_override, backtest_ran, accuracy_metrics, result,
                    backtest_metrics, probe, ML_MODEL_CACHE, responses >>

\* forecast.py:495-500
FitProphet == TryFitter("try_prophet")
\* forecast.py:501-506
FitSarimax == TryFitter("try_sarimax")
\* forecast.py:507-512
FitArimaFallback == TryFitter("try_arima")
\* forecast.py:522-527
FitArima == TryFitter("try_arima_medium")

\* a slip of the override: the sparse-data baseline sets none
OverrideAtFallbackOnly(here) ==
    CASE here = "baseline_fallback" -> "LOW"
      [] here = "baseline_sparse"   -> "None"

\* a slip of the override: the fallback baseline claims HIGH
OverrideAtHigh(here) ==
    CASE here = "baseline_fallback" -> "HIGH"
      [] here = "baseline_sparse"   -> "LOW"

\* confidence_override set next to a baseline call (forecast.py:515, 530, 538)
OverrideAt(here) ==
    CASE here = "baseline_fallback" -> "LOW"
      [] here = "baseline_sparse"   -> "LOW"

\* a call of fit_baseline_model; its exception leaves the outer try block
UseBaseline(here) ==
    /\ pc = here
    /\ IF BaselineRaises(Values(weekly_nonzero))
       THEN /\ calls' = Append(calls, Call("baseline", "raised", None))
            /\ pc' = Handler(here)
            /\ UNCHANGED << fitted, model_used, confidence_override >>
       ELSE /\ fitted' = Some(fit_baseline_model(Values(weekly_nonzero), horizon))
            /\ calls' = Append(calls, Call("baseline", "returned", fitted'))
            /\ model_used' = ModelName(here)
            /\ confidence_override' = OverrideAt(here)
            /\ pc' = "backtest"
    /\ UNCHANGED << df, horizon, weekly_df, weekly_nonzero, weekly_points,
                    model_selection_log, backtest_ran, accuracy_metrics, result,
                    backtest_metrics, probe, ML_MODEL_CACHE, responses >>

\* forecast.py:510-515 and 525-530
BaselineFallback == UseBaseline("baseline_fallback")
\* forecast.py:532-538
BaselineSparse == UseBaseline("baseline_sparse")

\* forecast.py:546
MinTrainSize(points) == Max(MinTrainFloor, points \div 2)

\* a slip of the override: it is dropped when the backtest returns metrics
AccuracyFromNoOverride(bt, override) ==
    IF bt = None
    THEN [mape |-> None, rmse |-> None, r2 |-> None, accuracy |-> 0,
          confidence |-> IF override # "None" THEN override ELSE "LOW"]
    ELSE bt[1]

\* a slip of the default: without metrics and without an override the tier
\* is MEDIUM
AccuracyFromMediumDefault(bt, override) ==
    IF bt = None
    THEN [mape |-> None, rmse |-> None, r2 |-> None, accuracy |-> 0,
          confidence |-> IF override # "None" THEN override ELSE "MEDIUM"]
    ELSE IF override # "None" THEN [bt[1] EXCEPT !.confidence = override]
    ELSE bt[1]

\* a slip of the override: it also resets the accuracy percentage
AccuracyFromOverrideAll(bt, override) ==
    IF bt = None
    THEN [mape |-> None, rmse |-> None, r2 |-> None, accuracy |-> 0,
          confidence |-> IF override # "None" THEN override ELSE "LOW"]
    ELSE IF override # "None"
         THEN [bt[1] EXCEPT !.confidence = override, !.accuracy = 0]
    ELSE bt[1]

\* forecast.py:551-564: the accuracy object from the backtest's return value
AccuracyFrom(bt, override) ==
    IF bt = None
    THEN [NoMetrics EXCEPT !.confidence = IF override # "None" THEN override ELSE "LOW"]
    ELSE IF override # "None" THEN [bt[1] EXCEPT !.confidence = override]
    ELSE bt[1]

\* forecast.py:225: rolling_origin_backtest imports scikit-learn inside its
\* loop and raises ImportError where it is not installed; fit_baseline_model
\* and pmdarima need scikit-learn themselves, so only an invocation served by
\* Prophet can reach the backtest in such an installation
BacktestMayRaise(model) == model = "Prophet (Seasonal)"

BacktestCall(outcome, value) == [outcome |-> outcome, value |-> value]

\* forecast.py:544-579: the backtest over the modelling series; its return
\* value, or the handler of line 571 when it raises
Backtest ==
    /\ pc = "backtest"
    /\ \/ backtest_metrics' =
             BacktestCall("returned",
                          rolling_origin_backtest(Values(weekly_nonzero), horizon,
                                                  MinTrainSize(weekly_points)))
       \/ /\ BacktestMayRaise(model_used)
          /\ backtest_metrics' = BacktestCall("raised", None)
    /\ accuracy_metrics' = AccuracyFrom(backtest_metrics'.value, confidence_override)
    /\ backtest_ran' = TRUE
    /\ pc' = "assemble"
    /\ UNCHANGED << df, horizon, weekly_df, weekly_nonzero, weekly_points, model_used,
                    fitted, confidence_override, model_selection_log, calls, result,
                    probe, ML_MODEL_CACHE, responses >>

(* ------------------------------ assembly ------------------------------ *)
\* a slip of the window: the whole of December
InUpliftWindowAllDecember(date) == DateMonth(date) = 12

\* forecast.py:602
InUpliftWindow(date) ==
    DateMonth(date) = 12 /\ UpliftFirstDay <= DateDay(date) /\ DateDay(date) <= UpliftLastDay
\* x * 1.15
Uplift(x) == (x * UpliftPct) \div 100
Adjusted(date, x) == IF InUpliftWindow(date) THEN Uplift(x) ELSE x

\* the rows of weekly_df with a raw value > 0
RawPositive(rows) ==
    Positive(AsList([i \in 1..Len(rows) |-> [date |-> rows[i].date, value |-> rows[i].value]]))

\* forecast.py:583
LastOf(pos) == IF Len(pos) > 0 THEN pos[Len(pos)].value ELSE 0
LastActualValue(rows) == LastOf(RawPositive(rows))

\* forecast.py:589-594
ConnectorOf(last_date, last_actual_value) ==
    [week  |-> Label(last_date),
     sales |-> Round2(last_actual_value),
     lower |-> Round2(last_actual_value),
     upper |-> Round2(last_actual_value)]
ConnectorPoint(rows) == ConnectorOf(rows[Len(rows)].date, LastActualValue(rows))

\* forecast.py:597-612, the entry of prediction i (1-based)
PointAt(date, pred, lo, hi) ==
    [week  |-> Label(date),
     sales |-> Round2(Adjusted(date, pred)),
     lower |-> Round2(Adjusted(date, lo)),
     upper |-> Round2(Adjusted(date, hi))]
PredictionPoint(last_date, fit, i) ==
    PointAt(last_date + 7 * i, fit.predictions[i], fit.lower[i], fit.upper[i])

\* a slip of the assembly: the connector entry is not prepended
ForecastArrayNoConnector(rows, fit) ==
    AsList([i \in 1..Len(fit.predictions) |->
               [week  |-> Label(rows[Len(rows)].date + 7 * i),
                sales |-> Round2(Adjusted(rows[Len(rows)].date + 7 * i, fit.predictions[i])),
                lower |-> Round2(Adjusted(rows[Len(rows)].date + 7 * i, fit.lower[i])),
                upper |-> Round2(Adjusted(rows[Len(rows)].date + 7 * i, fit.upper[i]))]])

ForecastArray(rows, fit) ==
    << ConnectorPoint(rows) >>
    \o AsList([i \in 1..Len(fit.predictions) |->
                  PredictionPoint(rows[Len(rows)].date, fit, i)])

\* forecast.py:614-621: tail(8) of the rows with a raw value > 0
TailRows(pos, from) ==
    AsList([i \in 1..(Len(pos) - from + 1) |->
               [date  |-> Label(pos[from + i - 1].date),
                sales |-> Round2(pos[from + i - 1].value)]])
HistoricalOf(pos) == TailRows(pos, Max(1, Len(pos) - HistoricalTail + 1))
Historical(rows) == HistoricalOf(RawPositive(rows))

\* a slip of the total: the connector entry is left out of the sum
ResultOfPredictionsOnly(historical, forecast, acc) ==
    [historical    |-> historical,
     forecast      |-> forecast,
     totalForecast |-> Round2(SumFrom(AsList([i \in 1..Len(forecast) |->
                                                 forecast[i].sales]), 2)),
     accuracy      |-> acc]

\* forecast.py:623-631
ResultOf(historical, forecast, acc) ==
    [historical    |-> historical,
     forecast      |-> forecast,
     totalForecast |-> Round2(SumSeq(AsList([i \in 1..Len(forecast) |-> forecast[i].sales]))),
     accuracy      |-> acc]
BuildResult(rows, fit, acc) == ResultOf(Historical(rows), ForecastArray(rows, fit), acc)

\* forecast.py:581-642
Assemble ==
    /\ pc = "assemble"
    /\ result' = BuildResult(weekly_df, fitted[1], accuracy_metrics)
    /\ pc' = "done"
    /\ UNCHANGED << df, horizon, weekly_df, weekly_nonzero, weekly_points, model_used,
                    fitted, confidence_override, model_selection_log, calls,
                    backtest_ran, accuracy_metrics, backtest_metrics, probe, ML_MODEL_CACHE, responses >>

\* a slip of the fallback dictionary: the accuracy object is left out
SafeFallbackNoAccuracy ==
    [historical |-> << >>, forecast |-> << >>, totalForecast |-> 0]

\* forecast.py:656-667
SafeFallback ==
    [historical |-> << >>, forecast |-> << >>, totalForecast |-> 0,
     accuracy |-> NoMetrics]

\* forecast.py:644-667: the handler of every exception of the try block
Except ==
    /\ pc = "except"
    /\ result' = SafeFallback
    /\ pc' = "done"
    /\ UNCHANGED << df, horizon, weekly_df, weekly_nonzero, weekly_points, model_used,
                    fitted, confidence_override, model_selection_log, calls,
                    backtest_ran, accuracy_metrics, backtest_metrics, probe, ML_MODEL_CACHE, responses >>

Next ==
    \/ Prepare
    \/ DetectAnomalies
    \/ SelectModel
    \/ FitProphet
    \/ FitSarimax
    \/ FitArimaFallback
    \/ FitArima
    \/ BaselineFallback
    \/ BaselineSparse
    \/ Backtest
    \/ Assemble
    \/ Except

Spec == Init /\ [][Next]_vars

(* --------------------------- direct calls ----------------------------- *)
\* The functions of the module called on their own: the initial state holds
\* the arguments, the action of the function applies it once.
PipelineVars == << df, horizon, pc, weekly_df, weekly_nonzero, weekly_points,
                   model_used, fitted, confidence_override, model_selection_log,
                   calls, backtest_ran, accuracy_metrics, result, backtest_metrics >>

SeqsUpTo(S, n) == UNION {{AsList(f) : f \in [1..k -> S]} : k \in 0..n}

\* y_true / y_pred pairs around the thresholds: 2.0 against 1.7 is a MAPE of
\* exactly 15, against 1.4 of exactly 30
MetricActuals == {0, 2 * Unit}
MetricPredictions == {0, 1399, 1400, 1401, 1699, 1700, 1701, 2 * Unit}
MetricInputs == SeqsUpTo(MetricActuals \X MetricPredictions, MaxPairs) \ {<< >>}

\* records on the days of three calendar weeks, one of them two weeks later
ProbeDays == {7 * EndWeekBase + k : k \in {-4, 0, 1, 17, 21}}
ProbeAmounts == {2 * Unit, -Unit}
PrepareInputs ==
    SeqsUpTo({Rec(d, a) : d \in ProbeDays, a \in ProbeAmounts}, MaxRecords)

SeriesValues == {-Unit, 0, Unit, 10 * Unit}
Methods == {"zscore", "iqr"}
AnomalyInputs ==
    {[series |-> v, method |-> m] :
        v \in SeqsUpTo(SeriesValues, MaxSeries)
              \cup {Values(prepare_weekly_series(Records("spike", n, EndWeekBase))) :
                        n \in 11..12}
              \cup {AsList([i \in 1..n |-> IF i = 3 THEN 0 ELSE 10 * Unit]) :
                        n \in 11..12},
        m \in Methods}

\* a rising series with a weekly wobble, a training size of 2 or the one the
\* pipeline passes for the length
BacktestSeries(n) == AsList([i \in 1..n |-> Unit + 100 * i + 300 * (i % 2)])
BacktestInputs ==
    {[series |-> BacktestSeries(n), horizon |-> h, min_train_size |-> m] :
        n \in 0..MaxBacktestSeries, h \in 1..MaxHorizon, m \in {2, MinTrainFloor}}

\* two requests for the same records and horizon, a year of weekly data
InvokeInputs ==
    {[records |-> Records("flat", SEASONAL_THRESHOLD, EndWeekBase + 3 * e),
      horizon |-> h] : e \in 0..MaxEndShift, h \in 1..MaxHorizon}

ProbeOf(fn, input) ==
    [fn |-> fn, input |-> input, applied |-> FALSE, output |-> << >>, again |-> << >>]

InitPure ==
    /\ df = << >>
    /\ horizon = 1
    /\ pc = "not invoked"
    /\ weekly_df = << >>
    /\ weekly_nonzero = << >>
    /\ weekly_points = 0
    /\ model_used = "None"
    /\ fitted = None
    /\ confidence_override = "None"
    /\ model_selection_log = << >>
    /\ calls = << >>
    /\ backtest_ran = FALSE
    /\ accuracy_metrics = NoMetrics
    /\ result = NoResult
    /\ backtest_metrics = NotCalled
    /\ \/ \E x \in MetricInputs : probe = ProbeOf("calculate_accuracy_metrics", x)
       \/ \E x \in PrepareInputs : probe = ProbeOf("prepare_weekly_series", x)
       \/ \E x \in AnomalyInputs : probe = ProbeOf("detect_and_handle_anomalies", x)
       \/ \E x \in InvokeInputs : probe = ProbeOf("generate_ml_forecast", x)
       \/ \E x \in BacktestInputs : probe = ProbeOf("rolling_origin_backtest", x)
    /\ ML_MODEL_CACHE = EmptyCache
    /\ responses = << >>

Applied(fn, output, again) ==
    /\ probe.fn = fn
    /\ ~probe.applied
    /\ probe' = [probe EXCEPT !.applied = TRUE, !.output = output, !.again = again]
    /\ UNCHANGED << PipelineVars, ML_MODEL_CACHE, responses >>

CallMetrics ==
    /\ probe.fn = "calculate_accuracy_metrics"
    /\ Applied("calculate_accuracy_metrics", calculate_accuracy_metrics(probe.input),
               << >>)

CallPrepare ==
    /\ probe.fn = "prepare_weekly_series"
    /\ Applied("prepare_weekly_series", prepare_weekly_series(probe.input), << >>)

CallAnomalies ==
    /\ probe.fn = "detect_and_handle_anomalies"
    /\ Applied("detect_and_handle_anomalies",
               detect_and_handle_anomalies(probe.input.series, probe.input.method),
               << >>)

\* the return value and the pairs the loop pooled
CallBacktest ==
    /\ probe.fn = "rolling_origin_backtest"
    /\ Applied("rolling_origin_backtest",
               [metrics   |-> rolling_origin_backtest(probe.input.series,
                                                      probe.input.horizon,
                                                      probe.input.min_train_size),
                all_pairs |-> PooledPairs(probe.input.series, probe.input.horizon,
                                          probe.input.min_train_size)],
               << >>)

\* forecast.py:461-464 on the prepared frame
CleanedFrame(weekly) ==
    WithCleaned(weekly, detect_and_handle_anomalies(Values(weekly), "zscore").cleaned)
\* forecast.py:544-631 for an invocation whose fitter returned fit without
\* an override
ResultWith(rows, vals, h, fit) ==
    BuildResult(rows, fit,
                AccuracyFrom(rolling_origin_backtest(vals, h, MinTrainSize(Len(vals))),
                             "None"))
\* generate_ml_forecast when Prophet returns raw: rows is the cleaned frame
ServedByProphet(rows, h, raw) ==
    ResultWith(rows, Values(Positive(ModelingFrame(rows))), h, FitterReturn(raw))

\* two invocations on the same records and horizon, both served by Prophet:
\* the fit is the same function of the data, the interval draws are separate
InvokeTwice ==
    /\ probe.fn = "generate_ml_forecast"
    /\ \E raw \in RawOutputs("prophet", probe.input.horizon), d1 \in Draws, d2 \in Draws :
          Applied("generate_ml_forecast",
                  ServedByProphet(CleanedFrame(RawFrame(prepare_weekly_series(
                                      probe.input.records))),
                                  probe.input.horizon, Resampled(raw, d1)),
                  ServedByProphet(CleanedFrame(RawFrame(prepare_weekly_series(
                                      probe.input.records))),
                                  probe.input.horizon, Resampled(raw, d2)))

NextPure ==
    \/ CallMetrics
    \/ CallPrepare
    \/ CallAnomalies
    \/ CallBacktest
    \/ InvokeTwice

SpecPure == InitPure /\ [][NextPure]_vars

(* ------------------- Backend/app2.py: the dashboard ------------------- *)
\* data_cache['df'] after load_data(): weeks 1..DashWeeks, the last one
\* ending on the Sunday of week EndWeekBase.  Week 1 has four records, week
\* 2 is a week of little revenue, every later week has one record.
DashWeekRecords(i, sunday) ==
    IF i = 1
    THEN << Rec(sunday - 6, 60 * Unit), Rec(sunday - 5, 60 * Unit),
            Rec(sunday - 4, 60 * Unit), Rec(sunday - 3, 60 * Unit) >>
    ELSE IF i = 2 THEN << Rec(sunday - 4, 50 * Unit) >>
    ELSE << Rec(sunday - 4, (150 + 10 * i) * Unit) >>
RECURSIVE DashRecordsFrom(_)
DashRecordsFrom(i) ==
    IF i > DashWeeks THEN << >>
    ELSE DashWeekRecords(i, SundayOf(EndWeekBase - DashWeeks + i))
         \o DashRecordsFrom(i + 1)
DashData == DashRecordsFrom(1)

\* request.args.get('from') and request.args.get('to'): NoDate is a missing
\* or empty parameter, `from` may be the Monday of week 4 and `to` the Sunday
\* of week 7, 9 or 12
NoDate == 0 - 1
Requests ==
    [from : {NoDate, SundayOf(EndWeekBase - DashWeeks + 4) - 6},
     to   : {NoDate} \cup {SundayOf(EndWeekBase - DashWeeks + i) : i \in {7, 9, 12}}]
Filtered(recs, request) ==
    SelectSeq(recs, LAMBDA rec :
        /\ request.from = NoDate \/ rec.InvoiceDate >= request.from
        /\ request.to = NoDate \/ rec.InvoiceDate <= request.to)

MinWeeklyRows == 8
MinDailyRows == 30
MinFitRows == 6
MinDashRecords == 10
ForecastSteps == 4
App2Tail == 8

\* resample('W', on='InvoiceDate')['TotalAmount'].sum()
ResampleWeekly(recs) ==
    IF recs = << >> THEN << >>
    ELSE WeeklyRows(recs, SetMin(WeekEnds(recs)), SetMax(WeekEnds(recs)))

RECURSIVE DaySum(_, _, _)
DaySum(recs, date, k) ==
    IF k > Len(recs) THEN 0
    ELSE (IF recs[k].InvoiceDate = date THEN recs[k].TotalAmount ELSE 0)
         + DaySum(recs, date, k + 1)
\* resample('D').sum() from the day `first` on, and the rows with a positive
\* sum; the records of the loaded frame are in date order
DailyRows(recs, first) ==
    SelectSeq(AsList([i \in 1..(recs[Len(recs)].InvoiceDate - first + 1) |->
                         Rec(first + i - 1, DaySum(recs, first + i - 1, 1))]),
              LAMBDA rec : rec.TotalAmount > 0)

\* the weekly rows, or with too few of them the daily aggregation summed by
\* week, or the ValueError
WeeklyOrDaily(recs, weekly) ==
    IF Len(weekly) >= MinWeeklyRows THEN [raised |-> FALSE, rows |-> weekly]
    ELSE IF Len(DailyRows(recs, recs[1].InvoiceDate)) >= MinDailyRows
         THEN [raised |-> FALSE,
               rows   |-> ResampleWeekly(DailyRows(recs, recs[1].InvoiceDate))]
         ELSE [raised |-> TRUE, rows |-> << >>]
EnoughToFit(w) ==
    IF ~w.raised /\ Len(w.rows) < MinFitRows
    THEN [raised |-> TRUE, rows |-> << >>] ELSE w
\* the weekly frame the models are fitted on (the weeks above 100), or the
\* ValueError
App2Series(recs) ==
    EnoughToFit(WeeklyOrDaily(recs, SelectSeq(ResampleWeekly(recs),
                                              LAMBDA row : row.value > 100 * Unit)))

\* ARIMA(1, 1, 1) of statsmodels is a library: its fit raises and the linear
\* regression on the week number takes over, or its forecast is one of two
\* outputs computed from the series
ArimaOutcomes == {"raises", "level", "mean"}
PredValues(vals, outcome) ==
    IF outcome = "raises" THEN LinearPredict(vals, ForecastSteps)
    ELSE AsList([j \in 1..ForecastSteps |->
                    IF outcome = "level" THEN vals[Len(vals)] ELSE Mean(vals)])

App2Entry(date, pred) ==
    [week  |-> Label(date),
     sales |-> Round2(pred),
     lower |-> Round2((pred * 85) \div 100),
     upper |-> Round2((pred * 115) \div 100)]
\* the predictions from the week after last_date on, raised by 40 % from
\* 18 to 31 December
App2Forecast(last_date, preds) ==
    AsList([i \in 1..Len(preds) |->
               App2Entry(last_date + 7 * i,
                         IF /\ DateMonth(last_date + 7 * i) = 12
                            /\ DateDay(last_date + 7 * i) >= 18
                            /\ DateDay(last_date + 7 * i) <= 31
                         THEN (preds[i] * 140) \div 100 ELSE preds[i])])
App2Result(historical, forecast) ==
    [historical    |-> historical,
     forecast      |-> forecast,
     totalForecast |-> Round2(SumSeq(AsList([i \in 1..Len(forecast) |->
                                                forecast[i].sales])))]
\* the forecast of app2.generate_ml_forecast computed from the rows
App2Fresh(rows, outcome) ==
    App2Result(TailRows(rows, Max(1, Len(rows) - App2Tail + 1)),
               App2Forecast(rows[Len(rows)].date, PredValues(Values(rows), outcome)))

Respond(request, cache, status, forecast) ==
    /\ ML_MODEL_CACHE' = cache
    /\ responses' = Append(responses, [request  |-> request,
                                       status   |-> status,
                                       forecast |-> forecast])
\* app2.generate_ml_forecast past the cache check: the result is stored in
\* the cache and returned; the ValueError is caught by get_dashboard and
\* answered with status 500
Compute(request, cache, series, outcome) ==
    IF series.raised THEN Respond(request, cache, 500, None)
    ELSE Respond(request,
                 [forecast_data |-> Some(App2Fresh(series.rows, outcome)),
                  model         |-> IF outcome = "raises" THEN None
                                    ELSE Some("ARIMAResults"),
                  metrics       |-> cache.metrics],
                 200, Some(App2Fresh(series.rows, outcome)))
Handle(request, recs, cache, outcome) ==
    IF Len(recs) < MinDashRecords THEN Respond(request, cache, 500, None)
    ELSE IF cache.forecast_data # None
         THEN Respond(request, cache, 200, cache.forecast_data)
         ELSE Compute(request, cache, App2Series(recs), outcome)

\* GET /api/dashboard: a request with a filter resets the cache first
get_dashboard ==
    /\ Len(responses) < MaxRequests
    /\ \E request \in Requests, outcome \in ArimaOutcomes :
          Handle(request, Filtered(DashData, request),
                 IF request.from # NoDate \/ request.to # NoDate
                 THEN EmptyCache ELSE ML_MODEL_CACHE,
                 outcome)
    /\ UNCHANGED << PipelineVars, probe >>

InitDashboard ==
    /\ df = << >>
    /\ horizon = 1
    /\ pc = "not invoked"
    /\ weekly_df = << >>
    /\ weekly_nonzero = << >>
    /\ weekly_points = 0
    /\ model_used = "None"
    /\ fitted = None
    /\ confidence_override = "None"
    /\ model_selection_log = << >>
    /\ calls = << >>
    /\ backtest_ran = FALSE
    /\ accuracy_metrics = NoMetrics
    /\ result = NoResult
    /\ backtest_metrics = NotCalled
    /\ probe = NoProbe
    /\ ML_MODEL_CACHE = EmptyCache
    /\ responses = << >>

SpecDashboard == InitDashboard /\ [][get_dashboard]_vars

(* ------------------------------ properties ---------------------------- *)
Chain == << "prophet", "sarimax", "arima", "baseline" >>
LastCall == calls[Len(calls)]
ResultKeys == {"historical", "forecast", "totalForecast", "accuracy"}

\* C1: with usable points >= 52 the fitters are called in the order Prophet,
\* seasonal ARIMA, non-seasonal ARIMA, baseline: the k-th call is the k-th
\* fitter of the chain and every call before it raised; a selection that is
\* over ended with a call that returned.
C1_FixedFallbackOrder ==
    weekly_points >= 52 =>
        /\ Len(calls) <= Len(Chain)
        /\ \A k \in 1..Len(calls) :
              /\ calls[k].fitter = Chain[k]
              /\ k < Len(calls) => calls[k].outcome = "raised"
        /\ pc \in {"backtest", "assemble", "done"} =>
              Len(calls) >= 1 /\ LastCall.outcome = "returned"
C1_Witness ==
    /\ pc = "done" /\ weekly_points >= 52 /\ Len(calls) = 4
    /\ LastCall.fitter = "baseline" /\ LastCall.outcome = "returned"

\* C2: Prophet and seasonal ARIMA are called only with usable points >= 52,
\* ARIMA only with usable points >= 16; with 16 <= usable < 52 the first
\* call is non-seasonal ARIMA, with usable < 16 the only call is the baseline.
C2_EntryGate ==
    /\ \A k \in 1..Len(calls) :
          /\ calls[k].fitter \in {"prophet", "sarimax"} => weekly_points >= 52
          /\ calls[k].fitter = "arima" => weekly_points >= 16
    /\ (calls # << >> /\ weekly_points >= 16 /\ weekly_points < 52) =>
          calls[1].fitter = "arima"
    /\ (calls # << >> /\ weekly_points < 16) =>
          Len(calls) = 1 /\ calls[1].fitter = "baseline"
    /\ (pc \in {"try_prophet", "try_sarimax"}) => weekly_points >= 52
    /\ (pc \in {"try_arima", "try_arima_medium"}) => weekly_points >= 16
C2_Witness ==
    /\ pc = "done" /\ weekly_points = 16 /\ Len(calls) = 2
    /\ calls[1].fitter = "arima" /\ calls[2].fitter = "baseline"

\* C3: a call that returned is the last call, no fitter is called twice, and
\* the forecast entries of the result are built from the output of that call.
C3_StopAtFirstSuccess ==
    /\ \A k \in 1..Len(calls) : calls[k].outcome = "returned" => k = Len(calls)
    /\ \A j, k \in 1..Len(calls) : j # k => calls[j].fitter # calls[k].fitter
    /\ (pc = "done" /\ result.forecast # << >>) =>
          /\ calls # << >>
          /\ LastCall.outcome = "returned"
          /\ fitted = LastCall.output
          /\ Len(result.forecast) = Len(LastCall.output[1].predictions) + 1
          /\ \A i \in 1..Len(LastCall.output[1].predictions) :
                result.forecast[i + 1] =
                    PointAt(weekly_df[Len(weekly_df)].date + 7 * i,
                            LastCall.output[1].predictions[i],
                            LastCall.output[1].lower[i],
                            LastCall.output[1].upper[i])
C3_Witness ==
    /\ pc = "done" /\ Len(calls) = 2
    /\ calls[1].fitter = "prophet" /\ calls[1].outcome = "raised"
    /\ calls[2].fitter = "sarimax" /\ calls[2].outcome = "returned"
    /\ Len(result.forecast) = horizon + 1

\* C4: a returned result of an invocation with fewer than 16 usable points
\* has confidence LOW.
C4_SparseIsLow ==
    (pc = "done" /\ weekly_points < 16) => result.accuracy.confidence = "LOW"
C4_Witness ==
    /\ pc = "done" /\ weekly_points < 16 /\ weekly_points > 0
    /\ result.accuracy.mape # None
    /\ result.accuracy.mape[1] < 15 * Unit
    /\ result.accuracy.confidence = "LOW"

\* C5: when the baseline was called after a richer fitter raised, the
\* returned confidence is LOW.
C5_FallbackIsLow ==
    (pc = "done" /\ Len(calls) >= 2 /\ LastCall.fitter = "baseline"
        /\ LastCall.outcome = "returned")
    => (weekly_points >= 16 /\ result.accuracy.confidence = "LOW")
C5_Witness ==
    /\ pc = "done" /\ Len(calls) >= 2 /\ LastCall.fitter = "baseline"
    /\ result.accuracy.mape # None
    /\ result.accuracy.mape[1] < 15 * Unit
    /\ result.accuracy.confidence = "LOW"

\* C6: every entry of a returned forecast array has sales, lower and upper
\* >= 0 and lower <= sales <= upper.
C6_NonNegativeOrdered ==
    pc = "done" =>
        \A i \in 1..Len(result.forecast) :
            /\ result.forecast[i].sales >= 0
            /\ result.forecast[i].lower >= 0
            /\ result.forecast[i].upper >= 0
            /\ result.forecast[i].lower <= result.forecast[i].sales
            /\ result.forecast[i].sales <= result.forecast[i].upper
C6_Witness ==
    /\ pc = "done" /\ Len(result.forecast) > 1
    /\ \E i \in 2..Len(result.forecast) :
          /\ result.forecast[i].sales = 0
          /\ result.forecast[i].upper > 0
          /\ result.forecast[i].week[2] = 12
          /\ result.forecast[i].week[1] >= 18

\* C7: no exception leaves generate_ml_forecast, and the returned dictionary
\* has the keys historical, forecast, totalForecast and accuracy.
C7_AlwaysReturnsResult ==
    /\ pc # "raised"
    /\ pc = "done" => DOMAIN result = ResultKeys
C7_Witness ==
    /\ pc = "done" /\ DOMAIN result = ResultKeys
    /\ Len(calls) = 1 /\ calls[1].outcome = "raised"
    /\ result.forecast = << >>

\* C8: with fewer than 4 prepared weeks the result is the empty fallback,
\* and neither a fitter nor the backtest was called.
C8_TooFewWeeks ==
    (pc = "done" /\ Len(weekly_df) < 4) =>
        /\ result.historical = << >>
        /\ result.forecast = << >>
        /\ result.totalForecast = 0
        /\ result.accuracy.mape = None
        /\ result.accuracy.rmse = None
        /\ result.accuracy.r2 = None
        /\ result.accuracy.confidence = "LOW"
        /\ calls = << >>
        /\ ~backtest_ran
C8_Witness ==
    /\ pc = "done" /\ Len(weekly_df) = 3 /\ result.forecast = << >>

\* C9: every invocation on a prepared series of at least 4 weeks returns a
\* non-empty forecast.
C9_NonEmptyFromFourWeeks ==
    (pc = "done" /\ Len(weekly_df) >= 4) => Len(result.forecast) > 0

\* C10: a returned non-empty forecast array has horizon + 1 entries, the
\* connector labelled with the last week first and then the h following
\* weeks in order; 12 usable points and horizon 4 give 5 entries from the
\* baseline with confidence LOW.
C10_ForecastLength ==
    (pc = "done" /\ result.forecast # << >>) =>
        /\ Len(result.forecast) = horizon + 1
        /\ result.forecast[1].week = Label(weekly_df[Len(weekly_df)].date)
        /\ result.forecast[1].sales = result.forecast[1].lower
        /\ result.forecast[1].sales = result.forecast[1].upper
        /\ \A i \in 1..horizon :
              result.forecast[i + 1].week = Label(weekly_df[Len(weekly_df)].date + 7 * i)
        /\ (weekly_points = 12 /\ horizon = 4) =>
              /\ Len(result.forecast) = 5
              /\ model_used = "Linear Baseline"
              /\ result.accuracy.confidence = "LOW"
C10_Witness ==
    /\ pc = "done" /\ weekly_points = 12 /\ horizon = 4
    /\ Len(result.forecast) = 5

\* C11: every returned dictionary has the key model_used, holding the name of
\* the model that produced the forecast.
C11_ModelUsedInResult ==
    pc = "done" =>
        /\ "model_used" \in DOMAIN result
        /\ result.model_used = model_used

\* C12: with fewer than 2 rolling windows the backtest returns nothing; when
\* it returns nothing or raises, the result still has horizon + 1 forecast
\* entries built from the selected fitter's output, mape, rmse and r2 are
\* null and the confidence is LOW.
C12_BacktestSkippedNotFatal ==
    /\ (backtest_ran /\ backtest_metrics.outcome = "returned"
            /\ weekly_points - MinTrainSize(weekly_points) < 2)
       => backtest_metrics.value = None
    /\ (backtest_ran /\ backtest_metrics.value = None) => pc \in {"assemble", "done"}
    /\ (pc = "done" /\ backtest_ran /\ backtest_metrics.value = None) =>
          /\ Len(result.forecast) = horizon + 1
          /\ \A i \in 1..horizon :
                result.forecast[i + 1].sales =
                    Round2(Adjusted(weekly_df[Len(weekly_df)].date + 7 * i,
                                    fitted[1].predictions[i]))
          /\ result.accuracy.mape = None
          /\ result.accuracy.rmse = None
          /\ result.accuracy.r2 = None
          /\ result.accuracy.confidence = "LOW"
C12_Witness ==
    /\ pc = "done" /\ weekly_points = 9 /\ horizon = 1
    /\ backtest_metrics.outcome = "returned" /\ backtest_metrics.value = None
    /\ Len(result.forecast) = 2
    /\ result.accuracy.mape = None

\* C13: in a returned result mape, rmse and r2 are all null or all non-null;
\* when they are null the confidence is LOW, so HIGH and MEDIUM come with a
\* non-null mape.
C13_MetricsAllOrNone ==
    pc = "done" =>
        /\ (result.accuracy.mape = None) <=> (result.accuracy.rmse = None)
        /\ (result.accuracy.mape = None) <=> (result.accuracy.r2 = None)
        /\ result.accuracy.mape = None => result.accuracy.confidence = "LOW"
        /\ result.accuracy.confidence \in {"HIGH", "MEDIUM"} =>
              result.accuracy.mape # None
C13_Witness ==
    /\ pc = "done" /\ backtest_metrics.outcome = "raised"
    /\ confidence_override = "None"
    /\ result.forecast # << >>
    /\ result.accuracy.mape = None /\ result.accuracy.rmse = None
    /\ result.accuracy.r2 = None
    /\ result.accuracy.confidence = "LOW"

\* C14: the confidence returned by calculate_accuracy_metrics is HIGH exactly
\* when the MAPE it computed is below 15, MEDIUM exactly when it is at least
\* 15 and below 30, LOW exactly when it is at least 30; a MAPE of exactly 15
\* is MEDIUM and of exactly 30 is LOW.
C14_ConfidenceTiers ==
    (probe.fn = "calculate_accuracy_metrics" /\ probe.applied) =>
        /\ probe.output.confidence = "HIGH" <=> MapeOf(probe.input) < 15 * Unit
        /\ probe.output.confidence = "MEDIUM" <=>
              (MapeOf(probe.input) >= 15 * Unit /\ MapeOf(probe.input) < 30 * Unit)
        /\ probe.output.confidence = "LOW" <=> MapeOf(probe.input) >= 30 * Unit
        /\ probe.input = << << 2 * Unit, 1701 >> >> => probe.output.confidence = "HIGH"
        /\ probe.input = << << 2 * Unit, 1700 >> >> =>
              /\ probe.output.mape = Some(15 * Unit)
              /\ probe.output.confidence = "MEDIUM"
        /\ probe.input = << << 2 * Unit, 1401 >> >> => probe.output.confidence = "MEDIUM"
        /\ probe.input = << << 2 * Unit, 1400 >> >> =>
              /\ probe.output.mape = Some(30 * Unit)
              /\ probe.output.confidence = "LOW"
C14_Witness ==
    /\ probe.fn = "calculate_accuracy_metrics" /\ probe.applied
    /\ probe.input = << << 2 * Unit, 1700 >> >>
    /\ probe.output.mape = Some(15 * Unit)
    /\ probe.output.confidence = "MEDIUM"

\* C15: for a non-empty set of records prepare_weekly_series returns one row
\* per week from the week of the earliest record to the week of the latest,
\* the dates are week ends 7 days apart, and a week without a record has
\* value 0.
C15_WeeklyCadence ==
    (probe.fn = "prepare_weekly_series" /\ probe.applied /\ probe.input # << >>) =>
        /\ Len(probe.output) >= 1
        /\ \A k \in 1..Len(probe.input) :
              /\ probe.output[1].date - 6 <= probe.input[k].InvoiceDate
              /\ probe.input[k].InvoiceDate <= probe.output[Len(probe.output)].date
        /\ \E k \in 1..Len(probe.input) :
              probe.input[k].InvoiceDate <= probe.output[1].date
        /\ \E k \in 1..Len(probe.input) :
              probe.input[k].InvoiceDate >= probe.output[Len(probe.output)].date - 6
        /\ \A i \in 1..Len(probe.output) :
              /\ probe.output[i].date % 7 = 0
              /\ i > 1 => probe.output[i].date = probe.output[i - 1].date + 7
              /\ (\A k \in 1..Len(probe.input) :
                      \/ probe.input[k].InvoiceDate < probe.output[i].date - 6
                      \/ probe.input[k].InvoiceDate > probe.output[i].date)
                 => probe.output[i].value = 0
C15_Witness ==
    /\ probe.fn = "prepare_weekly_series" /\ probe.applied
    /\ Len(probe.input) = 2
    /\ Len(probe.output) = 4
    /\ probe.output[1].value # 0
    /\ probe.output[2].value = 0
    /\ probe.output[3].value = 0
    /\ probe.output[4].value # 0

\* C16: the entry of a forecast week is multiplied by 1.15, point estimate
\* and both bounds alike, exactly when its date is in December with a day of
\* 18 to 31; every other entry is the fitter's value rounded, and the
\* connector is the last actual value whatever its date.
C16_DecemberUplift ==
    (pc = "done" /\ result.forecast # << >>) =>
        /\ result.forecast[1].sales = Round2(LastActualValue(weekly_df))
        /\ result.forecast[1].lower = Round2(LastActualValue(weekly_df))
        /\ result.forecast[1].upper = Round2(LastActualValue(weekly_df))
        /\ \A i \in 1..horizon :
              IF /\ DateMonth(weekly_df[Len(weekly_df)].date + 7 * i) = 12
                 /\ DateDay(weekly_df[Len(weekly_df)].date + 7 * i) >= 18
                 /\ DateDay(weekly_df[Len(weekly_df)].date + 7 * i) <= 31
              THEN /\ result.forecast[i + 1].sales =
                         Round2((fitted[1].predictions[i] * 115) \div 100)
                   /\ result.forecast[i + 1].lower =
                         Round2((fitted[1].lower[i] * 115) \div 100)
                   /\ result.forecast[i + 1].upper =
                         Round2((fitted[1].upper[i] * 115) \div 100)
              ELSE /\ result.forecast[i + 1].sales = Round2(fitted[1].predictions[i])
                   /\ result.forecast[i + 1].lower = Round2(fitted[1].lower[i])
                   /\ result.forecast[i + 1].upper = Round2(fitted[1].upper[i])
C16_Witness ==
    /\ pc = "done" /\ horizon >= 2 /\ Len(result.forecast) = horizon + 1
    /\ result.forecast[1].week = << 24, 12 >>
    /\ result.forecast[1].sales > 0
    /\ result.forecast[2].week = << 31, 12 >>
    /\ result.forecast[2].sales > Round2(fitted[1].predictions[1])
    /\ result.forecast[3].week = << 7, 1 >>
    /\ result.forecast[3].sales = Round2(fitted[1].predictions[2])
    /\ result.forecast[3].sales > 0

\* C17: totalForecast of a returned result is the sum of the sales of all
\* entries of its forecast array, the connector included, and 0 when the
\* array is empty.
C17_TotalIsSum ==
    pc = "done" =>
        /\ result.totalForecast =
              SumSeq(AsList([i \in 1..Len(result.forecast) |-> result.forecast[i].sales]))
        /\ result.forecast = << >> => result.totalForecast = 0
C17_Witness ==
    /\ pc = "done" /\ horizon = 2 /\ Len(result.forecast) = 3
    /\ result.forecast[1].sales > 0
    /\ result.forecast[2].sales > 0
    /\ result.totalForecast =
          result.forecast[1].sales + result.forecast[2].sales + result.forecast[3].sales

\* C18: the historical array of a returned forecast is the last 8 weeks of
\* the cleaned series whose cleaned value is not zero, with the cleaned
\* values, in order.
C18_HistoricalFromCleaned ==
    (pc = "done" /\ result.forecast # << >>) =>
        result.historical =
            HistoricalOf(SelectSeq(ModelingFrame(weekly_df), LAMBDA row : row.value # 0))

\* C19: two invocations on the same records and horizon return the same
\* result.
C19_SameResultTwice ==
    (probe.fn = "generate_ml_forecast" /\ probe.applied) => probe.output = probe.again

\* C20: detect_and_handle_anomalies returns a series of the length and the
\* positions of its input, for both methods; the flagged positions are
\* positions of the input and every other position keeps its value.
C20_LengthPreserved ==
    (probe.fn = "detect_and_handle_anomalies" /\ probe.applied) =>
        /\ Len(probe.output.cleaned) = Len(probe.input.series)
        /\ DOMAIN probe.output.cleaned = DOMAIN probe.input.series
        /\ probe.output.anomalies \subseteq DOMAIN probe.input.series
        /\ \A i \in DOMAIN probe.input.series \ probe.output.anomalies :
              probe.output.cleaned[i] = probe.input.series[i]
C20_Witness ==
    /\ probe.fn = "detect_and_handle_anomalies" /\ probe.applied
    /\ probe.input.method = "iqr"
    /\ Len(probe.input.series) = 5
    /\ probe.output.anomalies # {}
    /\ Len(probe.output.cleaned) = 5

\* C21: with the method zscore every point with |value - mean| / std > 3 is
\* in the returned anomaly list and its cleaned value is mean + 2 std,
\* whether it lies above or below the mean.
C21_ZScoreCapsBothSides ==
    (probe.fn = "detect_and_handle_anomalies" /\ probe.applied
        /\ probe.input.method = "zscore" /\ Len(probe.input.series) >= 4) =>
        \A i \in 1..Len(probe.input.series) :
            (DevC(probe.input.series, Mean(probe.input.series))[i]
                 * DevC(probe.input.series, Mean(probe.input.series))[i]
                 * (Len(probe.input.series) - 1)
               > 9 * SumSq(DevC(probe.input.series, Mean(probe.input.series))))
            => /\ i \in probe.output.anomalies
               /\ probe.output.cleaned[i] =
                     Mean(probe.input.series)
                     + 2 * StdOf(SumSq(DevC(probe.input.series, Mean(probe.input.series))),
                                 Len(probe.input.series) - 1)

IqrLower(series) ==
    Quantile(SortSeq(series, Ascending), 1)
    - (3 * (Quantile(SortSeq(series, Ascending), 3)
            - Quantile(SortSeq(series, Ascending), 1))) \div 2
IqrUpper(series) ==
    Quantile(SortSeq(series, Ascending), 3)
    + (3 * (Quantile(SortSeq(series, Ascending), 3)
            - Quantile(SortSeq(series, Ascending), 1))) \div 2

\* C22: with the method iqr every point below Q1 - 1.5 IQR is in the anomaly
\* list and replaced by Q1 - 1.5 IQR, every point above Q3 + 1.5 IQR is in
\* the list and replaced by Q3 + 1.5 IQR, and every cleaned value lies
\* between the two bounds.
C22_IqrClipsBothSides ==
    (probe.fn = "detect_and_handle_anomalies" /\ probe.applied
        /\ probe.input.method = "iqr" /\ Len(probe.input.series) >= 4) =>
        /\ \A i \in 1..Len(probe.input.series) :
              /\ probe.input.series[i] < IqrLower(probe.input.series) =>
                    /\ i \in probe.output.anomalies
                    /\ probe.output.cleaned[i] = IqrLower(probe.input.series)
              /\ probe.input.series[i] > IqrUpper(probe.input.series) =>
                    /\ i \in probe.output.anomalies
                    /\ probe.output.cleaned[i] = IqrUpper(probe.input.series)
              /\ probe.output.cleaned[i] >= IqrLower(probe.input.series)
              /\ probe.output.cleaned[i] <= IqrUpper(probe.input.series)
        /\ probe.input.series = << 0, 0, Unit, Unit, 10 * Unit >> =>
              probe.output.cleaned = << 0, 0, Unit, Unit, 2500 >>
        /\ probe.input.series = << -Unit, Unit, Unit, Unit, Unit >> =>
              probe.output.cleaned = << Unit, Unit, Unit, Unit, Unit >>
C22_Witness ==
    /\ probe.fn = "detect_and_handle_anomalies" /\ probe.applied
    /\ probe.input.method = "iqr"
    /\ probe.input.series = << -Unit, Unit, Unit, Unit, 10 * Unit >>
    /\ probe.output.anomalies = {1, 5}
    /\ probe.output.cleaned = << Unit, Unit, Unit, Unit, Unit >>

\* C30: for both methods every position outside the returned anomaly list
\* has the same value in the cleaned series as in the input, and the
\* caller's series holds the same values after the call as before.
C30_OnlyFlaggedChangeArgumentKept ==
    (probe.fn = "detect_and_handle_anomalies" /\ probe.applied) =>
        /\ \A i \in 1..Len(probe.input.series) :
              i \notin probe.output.anomalies =>
                  probe.output.cleaned[i] = probe.input.series[i]
        /\ probe.output.series = probe.input.series
C30_Witness ==
    /\ probe.fn = "detect_and_handle_anomalies" /\ probe.applied
    /\ probe.input.method = "zscore"
    /\ probe.output.anomalies = {3}
    /\ probe.output.cleaned[3] < probe.input.series[3]
    /\ probe.output.series = probe.input.series

\* C23: when rolling_origin_backtest returns metrics, the windows that
\* contributed pairs are as many as the feasible windows
\* min(series length - min_train_size, 8), and at least 2.
C23_AllFeasibleWindowsScored ==
    (probe.fn = "rolling_origin_backtest" /\ probe.applied
        /\ probe.output.metrics # None) =>
        /\ Len(probe.output.all_pairs) \div probe.input.horizon =
              Min(Len(probe.input.series) - probe.input.min_train_size, 8)
        /\ Len(probe.output.all_pairs) \div probe.input.horizon >= 2

\* C29: window w (from 0) of rolling_origin_backtest is trained on the first
\* min_train_size + w points and scored on the horizon points right after
\* them; only windows with horizon points left are scored, and the pooled
\* pairs are horizon per scored window.
C29_WindowRanges ==
    (probe.fn = "rolling_origin_backtest" /\ probe.applied
        /\ probe.output.metrics # None) =>
        /\ Len(probe.output.all_pairs) =
              probe.input.horizon
              * Cardinality({w \in 0..(Min(Len(probe.input.series)
                                            - probe.input.min_train_size, 8) - 1) :
                               probe.input.min_train_size + w + probe.input.horizon
                                   <= Len(probe.input.series)})
        /\ \A w \in 0..(Len(probe.output.all_pairs) \div probe.input.horizon - 1) :
              \A j \in 1..probe.input.horizon :
                 /\ probe.input.min_train_size + w + j <= Len(probe.input.series)
                 /\ probe.output.all_pairs[w * probe.input.horizon + j][1] =
                       probe.input.series[probe.input.min_train_size + w + j]
                 /\ probe.output.all_pairs[w * probe.input.horizon + j][2] =
                       LinearPredict(SubSeq(probe.input.series, 1,
                                            probe.input.min_train_size + w),
                                     probe.input.horizon)[j]
C29_Witness ==
    /\ probe.fn = "rolling_origin_backtest" /\ probe.applied
    /\ Len(probe.input.series) = 12
    /\ probe.input.min_train_size = 8
    /\ probe.input.horizon = 2
    /\ probe.output.metrics # None
    /\ Len(probe.output.all_pairs) = 6
    /\ probe.output.all_pairs[3][1] = probe.input.series[10]

SameNumbers(acc, bt) ==
    IF bt = None
    THEN acc.mape = None /\ acc.rmse = None /\ acc.r2 = None /\ acc.accuracy = 0
    ELSE /\ acc.mape = bt[1].mape
         /\ acc.rmse = bt[1].rmse
         /\ acc.r2 = bt[1].r2
         /\ acc.accuracy = bt[1].accuracy
         /\ acc.confidence \in {bt[1].confidence, "LOW"}

\* C24: the mape, rmse, r2 and accuracy of a returned result whose backtest
\* returned are those of the linear-trend backtest over the usable cleaned
\* series and the horizon, whichever fitters were called and whichever of
\* them served the forecast; only the confidence can differ, by being LOW.
C24_BacktestIgnoresSelection ==
    (pc = "done" /\ backtest_metrics.outcome = "returned") =>
        SameNumbers(result.accuracy,
                    rolling_origin_backtest(Values(weekly_nonzero), horizon,
                                            Max(8, weekly_points \div 2)))
C24_Witness ==
    /\ pc = "done" /\ Len(calls) = 4
    /\ LastCall.fitter = "baseline" /\ LastCall.outcome = "returned"
    /\ backtest_metrics.value # None
    /\ backtest_metrics.value[1].confidence = "HIGH"
    /\ result.accuracy.mape = backtest_metrics.value[1].mape
    /\ result.accuracy.accuracy > 0
    /\ result.accuracy.confidence = "LOW"

\* C25: the usable-point count is the number of weeks whose cleaned value is
\* not zero, negative weeks included, and those weeks are the series handed
\* to the fitters.
C25_UsableCountsNonZero ==
    (pc \notin {"prepare", "anomalies"} /\ Len(weekly_df) >= 4) =>
        /\ weekly_points =
              Cardinality({i \in 1..Len(weekly_df) : weekly_df[i].value_cleaned # 0})
        /\ weekly_nonzero =
              SelectSeq(ModelingFrame(weekly_df), LAMBDA row : row.value # 0)

\* C26: the first forecast entry has sales, lower and upper equal to the
\* value of the last week whose actual value is not zero, and is labelled
\* with the date of that week.
C26_ConnectorAtLastNonZeroWeek ==
    (pc = "done" /\ result.forecast # << >>) =>
        \E i \in 1..Len(weekly_df) :
            /\ weekly_df[i].value # 0
            /\ \A j \in (i + 1)..Len(weekly_df) : weekly_df[j].value = 0
            /\ result.forecast[1].week = Label(weekly_df[i].date)
            /\ result.forecast[1].sales = Round2(weekly_df[i].value)
            /\ result.forecast[1].lower = Round2(weekly_df[i].value)
            /\ result.forecast[1].upper = Round2(weekly_df[i].value)

\* C28: when a library fitter served the forecast and the backtest returned
\* metrics, the reported confidence is the backtest's tier; in every result
\* the confidence is the backtest's tier or LOW, and LOW without metrics.
C28_OverrideOnlyDowngrades ==
    pc = "done" =>
        /\ (calls # << >> /\ LastCall.outcome = "returned"
                /\ LastCall.fitter # "baseline" /\ backtest_metrics.value # None)
           => /\ weekly_points >= 16
              /\ result.accuracy.confidence = backtest_metrics.value[1].confidence
        /\ backtest_metrics.value # None =>
              result.accuracy.confidence \in {backtest_metrics.value[1].confidence, "LOW"}
        /\ backtest_metrics.value = None => result.accuracy.confidence = "LOW"
C28_Witness ==
    /\ pc = "done" /\ Len(calls) = 1
    /\ LastCall.fitter = "arima" /\ LastCall.outcome = "returned"
    /\ backtest_metrics.value # None
    /\ backtest_metrics.value[1].confidence = "MEDIUM"
    /\ result.accuracy.confidence = "MEDIUM"

\* C27: in Backend/app2.py, whatever dashboard requests came before, with
\* whatever date filters, a request answered with a forecast gets the forecast
\* computed from its own filtered record set: the global ML_MODEL_CACHE never
\* serves a forecast that was computed for another filter.
FreshForecasts(series) ==
    IF series.raised THEN {}
    ELSE {App2Fresh(series.rows, outcome) : outcome \in ArimaOutcomes}
OwnForecast(response) ==
    response.status = 200 =>
        response.forecast[1] \in
            FreshForecasts(App2Series(Filtered(DashData, response.request)))
C27_ForecastOfOwnFilter ==
    \A k \in 1..Len(responses) : OwnForecast(responses[k])

====
